---- MODULE Spec2Model ----
(***************************************************************************)
(* A model of the contract-enforcement core of mmm-framework: the column   *)
(* naming grammar (mmm/config/schema.py), the column mapper                *)
(* (mmm/data/column_mapper.py), the dataset contract and constructor       *)
(* (mmm/data/validation.py, mmm/data/dataset.py) and the feature           *)
(* transformers and pipeline (mmm/features/*.py).                          *)
(*                                                                         *)
(* Column names are sequences of one-character strings, so that the        *)
(* regular expressions, str.split and the normalizer are computed on       *)
(* characters, as the code computes them.                                  *)
(***************************************************************************)
EXTENDS Integers, Sequences, FiniteSets, TLC

VARIABLES
    nm_name,      \* naming harness: the name the functions are applied to
    nm_call,      \* naming harness: the function last applied ("none" at first)
    nm_ret,       \* naming harness: what that function returned
    cm_df,        \* mapper: the caller's table (its column labels, in order)
    cm_cfg,       \* mapper: ColumnMapper's constructor arguments
    cm_res,       \* mapper: the outcome of apply (error kind, or table + report)
    ft_call,      \* features: the last call and its arguments
    ft_out,       \* features: what the last call returned or raised
    ft_after      \* features: what the last call left of the caller's input, and
                  \* the pipeline's transformers it called

nmVars == <<nm_name, nm_call, nm_ret>>
cmVars == <<cm_df, cm_cfg, cm_res>>
ftVars == <<ft_call, ft_out, ft_after>>
vars == <<nm_name, nm_call, nm_ret, cm_df, cm_cfg, cm_res, ft_call, ft_out, ft_after>>

(***************************************************************************)
(* Bounds of the model.                                                    *)
(***************************************************************************)
MaxPieces == 4      \* a name of the naming harness is at most this many pieces
MaxMap == 2         \* entries of a configured mapping
MaxRows == 2        \* rows of a table handed to MMMDataSet.from_dataframe
MaxLongRows == 2    \* further rows of a table of consecutive days
MaxRawCols == 1     \* its columns besides the date column
MaxDsCols == 3      \* a transformer or pipeline is run on a dataset of at most this many columns
MaxPipeline == 2    \* transformers of a pipeline

(***************************************************************************)
(* Characters.                                                             *)
(***************************************************************************)
Lower == {"a","b","c","d","e","f","g","h","i","j","k","l","m",
          "n","o","p","q","r","s","t","u","v","w","x","y","z"}
Upper == {"A","B","C"}
Digit == {"0","1","2","3","4","5","6","7","8","9"}
Space == {" "}
TokenChar == Lower \cup Digit \cup {"_"}

ToLower(ch) ==
    CASE ch = "A" -> "a"
      [] ch = "B" -> "b"
      [] ch = "C" -> "c"
      [] OTHER -> ch

AllIn(s, class) == \A i \in 1..Len(s) : s[i] \in class

\* s[i..] (1-based), empty when i > Len(s)
Drop(s, i) == SubSeq(s, i, Len(s))

\* `"__" in s`
ContainsSep(s) == \E i \in 1..(Len(s) - 1) : s[i] = "_" /\ s[i + 1] = "_"

\* s.split("__"): left-to-right, non-overlapping, empty tokens kept
RECURSIVE SplitSep(_)
SplitSep(s) ==
    IF ~ContainsSep(s) THEN <<s>>
    ELSE LET i == CHOOSE j \in 1..(Len(s) - 1) :
                     /\ s[j] = "_" /\ s[j + 1] = "_"
                     /\ \A h \in 1..(j - 1) : ~(s[h] = "_" /\ s[h + 1] = "_")
         IN  <<SubSeq(s, 1, i - 1)>> \o SplitSep(Drop(s, i + 2))

(***************************************************************************)
(* mmm/config/schema.py                                                    *)
(***************************************************************************)
ROLE_SEPARATOR == <<"_", "_">>
DATE_COLUMN == <<"d","a","t","e">>
ALLOWED_ROLES ==
    { <<"t","a","r","g","e","t">>, <<"m","e","d","i","a">>,
      <<"c","o","n","t","r","o","l">>, <<"e","v","e","n","t">>,
      <<"b","a","s","e","l","i","n","e">>, <<"i","d">> }

\* the tail (?:__[a-z0-9_]+)*$ of _VALID_COL_RE
RECURSIVE ValidColTail(_)
ValidColTail(s) ==
    \/ s = <<>>
    \/ /\ Len(s) >= 3
       /\ s[1] = "_" /\ s[2] = "_"
       /\ \E q \in 0..(Len(s) - 3) :
            LET e == Len(s) - q      \* the group's [a-z0-9_]+ is s[3..e], longest first
            IN  /\ AllIn(SubSeq(s, 3, e), TokenChar)
                /\ ValidColTail(Drop(s, e + 1))

\* _VALID_COL_RE.match(name): ^[a-z][a-z0-9_]*(?:__[a-z0-9_]+)*$
VALID_COL_RE(s) ==
    /\ Len(s) >= 1
    /\ s[1] \in Lower
    /\ \E q \in 0..(Len(s) - 1) :
         LET e == Len(s) - q         \* [a-z0-9_]* is s[2..e], longest first
         IN  /\ AllIn(SubSeq(s, 2, e), TokenChar)
             /\ ValidColTail(Drop(s, e + 1))

is_valid_column_name(name) ==
    IF name = DATE_COLUMN THEN TRUE ELSE VALID_COL_RE(name)

\* Optional[ParsedName]: ok = FALSE is None
NoParse == [ok |-> FALSE, role |-> <<>>, parts |-> <<>>]
ParsedName(role, parts) == [ok |-> TRUE, role |-> role, parts |-> parts]

\* parse_column_name without its is_valid_column_name guard (line 42)
parse_column_name_unguarded(name) ==
    IF name = DATE_COLUMN THEN ParsedName(<<"d","a","t","e">>, <<>>)
    ELSE IF ~ContainsSep(name) THEN NoParse
    ELSE LET toks == SplitSep(name)
         IN  IF Head(toks) \notin ALLOWED_ROLES THEN NoParse
             ELSE ParsedName(Head(toks), Tail(toks))

parse_column_name(name) ==
    IF name = DATE_COLUMN THEN ParsedName(<<"d","a","t","e">>, <<>>)
    ELSE IF ~is_valid_column_name(name) THEN NoParse
    ELSE IF ~ContainsSep(name) THEN NoParse
    ELSE LET toks == SplitSep(name)
             role == Head(toks)
             parts == Tail(toks)
         IN  IF role \notin ALLOWED_ROLES THEN NoParse
             ELSE IF Len(parts) = 0 THEN NoParse
             ELSE ParsedName(role, parts)

\* Optional[str]: ok = FALSE is None
infer_role(name) ==
    LET parsed == parse_column_name(name)
    IN  IF parsed.ok THEN [ok |-> TRUE, role |-> parsed.role]
        ELSE [ok |-> FALSE, role |-> <<>>]

(***************************************************************************)
(* mmm/data/column_mapper.py: the naming convention of mapping targets     *)
(***************************************************************************)
\* str.strip(): leading and trailing whitespace removed
RECURSIVE LStrip(_)
LStrip(s) == IF s # <<>> /\ Head(s) \in Space THEN LStrip(Tail(s)) ELSE s
RECURSIVE RStrip(_)
RStrip(s) ==
    IF s # <<>> /\ s[Len(s)] \in Space THEN RStrip(SubSeq(s, 1, Len(s) - 1)) ELSE s
Strip(s) == RStrip(LStrip(s))

\* seg_re = ^[a-z][a-z0-9_]*$
SegRe(seg) == Len(seg) >= 1 /\ seg[1] \in Lower /\ AllIn(Tail(seg), TokenChar)

is_valid_mmm_column_name(name) ==
    LET n == Strip(name)
        parts == SplitSep(n)
    IN  IF n = <<>> \/ n # name THEN FALSE
        ELSE IF n = <<"d","a","t","e">> THEN TRUE
        ELSE IF ~ContainsSep(n) THEN FALSE
        ELSE IF \E i \in 1..Len(parts) : parts[i] = <<>> THEN FALSE
        ELSE IF Head(parts) \notin ALLOWED_ROLES THEN FALSE
        ELSE IF \E i \in 2..Len(parts) :
                    \/ ~SegRe(parts[i])
                    \/ parts[i][1] = "_" \/ parts[i][Len(parts[i])] = "_"
                    \/ ContainsSep(parts[i])
             THEN FALSE
        ELSE IF Len(parts) < 2 THEN FALSE
        ELSE TRUE

(***************************************************************************)
(* mmm/data/column_mapper.py: default_normalizer                           *)
(***************************************************************************)
\* one accented letter and its combining mark stand for the non-ASCII input
E_ACUTE == "e+acute"
COMBINING_ACUTE == "+acute"

\* unicodedata.normalize("NFKD", ch) of one character
NFKDChar(ch) == IF ch = E_ACUTE THEN <<"e", COMBINING_ACUTE>> ELSE <<ch>>
RECURSIVE NFKD(_)
NFKD(s) == IF s = <<>> THEN <<>> ELSE NFKDChar(Head(s)) \o NFKD(Tail(s))

Combining == {COMBINING_ACUTE}
SpaceOrDash == Space \cup {"-"}
Chars == Lower \cup Upper \cup Digit \cup Space \cup {"_", "-", "!", E_ACUTE, COMBINING_ACUTE}

RECURSIVE MapLower(_)
MapLower(s) == IF s = <<>> THEN <<>> ELSE <<ToLower(Head(s))>> \o MapLower(Tail(s))

\* the first index >= i of s whose character is not in the class (Len(s)+1 if none)
RECURSIVE RunEnd(_, _, _)
RunEnd(s, i, class) == IF i <= Len(s) /\ s[i] \in class THEN RunEnd(s, i + 1, class) ELSE i

\* re.sub(r"[class]+", repl, s): every maximal run of the class becomes repl
RECURSIVE ReSubRuns(_, _, _)
ReSubRuns(s, class, repl) ==
    IF s = <<>> THEN <<>>
    ELSE IF Head(s) \in class
         THEN repl \o ReSubRuns(Drop(s, RunEnd(s, 1, class)), class, repl)
    ELSE <<Head(s)>> \o ReSubRuns(Tail(s), class, repl)

default_normalizer(col) ==
    LET s1 == NFKD(col)
        s2 == ReSubRuns(s1, Combining, <<>>)      \* drop combining marks
        s3 == MapLower(Strip(s2))
        s4 == ReSubRuns(s3, SpaceOrDash, <<"_">>)
        s5 == ReSubRuns(s4, Chars \ TokenChar, <<>>)
        s6 == ReSubRuns(s5, {"_"}, <<"_">>)
    IN  s6

(***************************************************************************)
(* Python dict (insertion-ordered) as a sequence of <<key, value>> pairs   *)
(* with distinct keys, and list helpers.                                   *)
(***************************************************************************)
Range(s) == { s[i] : i \in 1..Len(s) }
Keys(d) == [i \in 1..Len(d) |-> d[i][1]]
Values(d) == [i \in 1..Len(d) |-> d[i][2]]
HasKey(d, k) == \E i \in 1..Len(d) : d[i][1] = k
Get(d, k) == d[CHOOSE i \in 1..Len(d) : d[i][1] = k][2]
\* d[k] = v: an existing key keeps its position and takes the new value
DictSet(d, k, v) ==
    IF HasKey(d, k) THEN [i \in 1..Len(d) |-> IF d[i][1] = k THEN <<k, v>> ELSE d[i]]
    ELSE Append(d, <<k, v>>)
\* [x for x in s if P(x)]
Injective(s) == \A i, j \in 1..Len(s) : i # j => s[i] # s[j]
\* targets.count(t)
Count(s, x) == Cardinality({ i \in 1..Len(s) : s[i] = x })

(***************************************************************************)
(* mmm/data/column_mapper.py: ColumnMapper.apply                           *)
(*                                                                         *)
(* A table is the sequence of its columns; a column is [label, col], col   *)
(* being the position the column had in the caller's table (it stands for  *)
(* the column's data, which apply never reads).                            *)
(***************************************************************************)
Labels(df) == [i \in 1..Len(df) |-> df[i].label]

NoReport == [original_columns |-> <<>>, has_normalized |-> FALSE,
             normalized_columns |-> <<>>, applied_mapping |-> <<>>,
             renamed_columns |-> <<>>, unmapped_columns |-> <<>>,
             dropped_columns |-> <<>>]

Raise(cls, msg, detail) ==
    [kind |-> "error", cls |-> cls, msg |-> msg, detail |-> detail,
     out_df |-> <<>>, report |-> NoReport]
Return(out_df, report) ==
    [kind |-> "ok", cls |-> "", msg |-> "", detail |-> <<>>,
     out_df |-> out_df, report |-> report]

\* the loop of lines 169-175 without the test `seen[after] != before` ever succeeding
NormCollisionsNone(original_cols, normed_cols, i, seen) == <<>>

\* lines 169-175: the (seen[after], before, after) triples of the loop from index i on
RECURSIVE NormCollisions(_, _, _, _)
NormCollisions(original_cols, normed_cols, i, seen) ==
    IF i > Len(original_cols) THEN <<>>
    ELSE LET before == original_cols[i]
             after == normed_cols[i]
         IN  IF HasKey(seen, after) /\ Get(seen, after) # before
             THEN <<<<Get(seen, after), before, after>>>>
                    \o NormCollisions(original_cols, normed_cols, i + 1, seen)
             ELSE NormCollisions(original_cols, normed_cols, i + 1,
                                 DictSet(seen, after, before))

\* {f(k): v for k, v in d.items()}
RECURSIVE DictMapKeys(_, _, _)
DictMapKeys(d, i, acc) ==
    IF i > Len(d) THEN acc
    ELSE DictMapKeys(d, i + 1, DictSet(acc, default_normalizer(d[i][1]), d[i][2]))

\* {before: after for before, after in zip(original_cols, normed_cols)}
RECURSIVE DictZip(_, _, _, _)
DictZip(ks, vs, i, acc) ==
    IF i > Len(ks) THEN acc ELSE DictZip(ks, vs, i + 1, DictSet(acc, ks[i], vs[i]))

\* DataFrame.rename(columns=m): every label that is a key of m is replaced
Rename(df, m) ==
    [i \in 1..Len(df) |->
        [label |-> IF HasKey(m, df[i].label) THEN Get(m, df[i].label) ELSE df[i].label,
         col |-> df[i].col]]

\* DataFrame.drop(columns=labels): every column carrying one of the labels goes
DropColumns(df, labels) ==
    LET Kept(c) == c.label \notin Range(labels) IN SelectSeq(df, Kept)

\* the checks of lines 191-221 with the target-name check moved before the
\* missing-source check
ChecksTargetsFirst(missing_sources, invalid_targets, dup_targets, keep_unmapped, collisions2, result) ==
    IF invalid_targets # <<>>
    THEN Raise("InvalidTargetColumnNameError", "invalid", Range(invalid_targets))
    ELSE IF missing_sources # <<>>
    THEN Raise("SourceColumnMissingError", "missing", Range(missing_sources))
    ELSE IF dup_targets # {}
    THEN Raise("TargetColumnCollisionError", "same_target", dup_targets)
    ELSE IF keep_unmapped /\ collisions2 # {}
    THEN Raise("TargetColumnCollisionError", "unmapped", collisions2)
    ELSE result

\* lines 191-221: the four checks after normalization, in the order of the code;
\* result is what lines 223-241 return when none of them raises
Checks(missing_sources, invalid_targets, dup_targets, keep_unmapped, collisions2, result) ==
    IF missing_sources # <<>>
    THEN Raise("SourceColumnMissingError", "missing", Range(missing_sources))
    ELSE IF invalid_targets # <<>>
    THEN Raise("InvalidTargetColumnNameError", "invalid", Range(invalid_targets))
    ELSE IF dup_targets # {}
    THEN Raise("TargetColumnCollisionError", "same_target", dup_targets)
    ELSE IF keep_unmapped /\ collisions2 # {}
    THEN Raise("TargetColumnCollisionError", "unmapped", collisions2)
    ELSE result

\* lines 191-241, on the working table and the working mapping
ApplyChecked(original_cols, normalized, normalized_map, working_df, working_mapping, keep_unmapped) ==
    LET cols == Labels(working_df)
        IsMissing(src) == src \notin Range(cols)
        missing_sources == SelectSeq(Keys(working_mapping), IsMissing)
        IsInvalid(t) == ~is_valid_mmm_column_name(t)
        invalid_targets == SelectSeq(Values(working_mapping), IsInvalid)
        targets == Values(working_mapping)
        dup_targets == { t \in Range(targets) : Count(targets, t) > 1 }
        IsUnmapped(c) == ~HasKey(working_mapping, c)
        unmapped == SelectSeq(cols, IsUnmapped)
        collisions2 == Range(unmapped) \cap Range(targets)
        renamed_columns == working_mapping
        renamed_df == Rename(working_df, renamed_columns)
        dropping == ~keep_unmapped /\ unmapped # <<>>
        dropped_columns == IF dropping THEN unmapped ELSE <<>>
        out_df == IF dropping THEN DropColumns(renamed_df, unmapped) ELSE renamed_df
        report == [original_columns |-> original_cols,
                   has_normalized |-> normalized,
                   normalized_columns |-> normalized_map,
                   applied_mapping |-> working_mapping,
                   renamed_columns |-> renamed_columns,
                   unmapped_columns |-> IF keep_unmapped THEN unmapped ELSE <<>>,
                   dropped_columns |-> dropped_columns]
    IN  Checks(missing_sources, invalid_targets, dup_targets, keep_unmapped,
               collisions2, Return(out_df, report))

\* ColumnMapper.apply(df) of a mapper constructed with cfg
apply(cfg, df) ==
    LET original_cols == Labels(df)
        normed_cols == [i \in 1..Len(original_cols) |-> default_normalizer(original_cols[i])]
        collisions == NormCollisions(original_cols, normed_cols, 1, <<>>)
        normalized_map == DictZip(original_cols, normed_cols, 1, <<>>)
        normed_df == [i \in 1..Len(df) |-> [label |-> normed_cols[i], col |-> df[i].col]]
    IN  IF cfg.normalize
        THEN IF collisions # <<>>
             THEN Raise("SourceNormalizationCollisionError", "normalization",
                        Range(collisions))
             ELSE ApplyChecked(original_cols, TRUE, normalized_map, normed_df,
                               DictMapKeys(cfg.mapping, 1, <<>>), cfg.keep_unmapped)
        ELSE ApplyChecked(original_cols, FALSE, <<>>, df, cfg.mapping, cfg.keep_unmapped)

(***************************************************************************)
(* Tables of the dataset layer (pandas DataFrame).                         *)
(*                                                                         *)
(* A cell is [fn, a, b, c]: the rational a/b ("num"), NaN ("nan"), a text  *)
(* that is neither a number nor a date ("str"), the datetime a ("dt": the  *)
(* half-day count, 2 * day + half), NaT ("nat"), and sin/cos(2*pi*a*b/c)   *)
(* ("sin", "cos"), kept symbolic.  A column is [name, dtype, vals]; a      *)
(* frame is [n, cols] with n rows and columns of distinct names.           *)
(***************************************************************************)
Num(a, b) == [fn |-> "num", a |-> a, b |-> b, c |-> 0]
NaN == [fn |-> "nan", a |-> 0, b |-> 1, c |-> 0]
Str == [fn |-> "str", a |-> 0, b |-> 1, c |-> 0]
Dt(t) == [fn |-> "dt", a |-> t, b |-> 1, c |-> 0]
NaT == [fn |-> "nat", a |-> 0, b |-> 1, c |-> 0]
Sin(k, t, p) == [fn |-> "sin", a |-> k, b |-> t, c |-> p]
Cos(k, t, p) == [fn |-> "cos", a |-> k, b |-> t, c |-> p]

Column(name, dtype, vals) == [name |-> name, dtype |-> dtype, vals |-> vals]
Frame(n, cols) == [n |-> n, cols |-> cols]
ColNames(df) == [i \in 1..Len(df.cols) |-> df.cols[i].name]
HasCol(df, name) == \E i \in 1..Len(df.cols) : df.cols[i].name = name
\* df[name]
Col(df, name) == df.cols[CHOOSE i \in 1..Len(df.cols) : df.cols[i].name = name]
\* df[name] = column: an existing column keeps its position, a new one goes last
SetCol(df, column) ==
    IF HasCol(df, column.name)
    THEN Frame(df.n, [i \in 1..Len(df.cols) |->
                        IF df.cols[i].name = column.name THEN column ELSE df.cols[i]])
    ELSE Frame(df.n, Append(df.cols, column))

\* elementwise comparisons of a numeric cell with 0 and 1; NaN compares False
LtZero(v) == v.fn = "num" /\ v.a < 0
GtOne(v) == v.fn = "num" /\ v.a > v.b
IsNa(v) == v.fn \in {"nan", "nat"}

\* pd.to_datetime(series, errors="coerce"): what does not parse becomes NaT
ToDatetimeCell(v) == IF v.fn = "dt" THEN v ELSE NaT
ToDatetime(column) ==
    Column(column.name, "datetime64",
           [i \in 1..Len(column.vals) |-> ToDatetimeCell(column.vals[i])])

\* Timestamp.normalize(): the midnight of the day
Normalize(t) == t - (t % 2)

\* the row order of sort_values: ascending, NaT last, ties in their given order
SortOrder(column) ==
    LET n == Len(column.vals)
        Before(i, j) ==
            LET v == column.vals[i]
                w == column.vals[j]
            IN  \/ v.fn = "dt" /\ w.fn = "dt" /\ v.a < w.a
                \/ v.fn = "dt" /\ w.fn # "dt"
                \/ v.fn = "dt" /\ w.fn = "dt" /\ v.a = w.a /\ i < j
                \/ v.fn # "dt" /\ w.fn # "dt" /\ i < j
    IN  CHOOSE p \in [1..n -> 1..n] :
            /\ \A i, j \in 1..n : i # j => p[i] # p[j]
            /\ \A i, j \in 1..n : i < j => Before(p[i], p[j])

\* from_dataframe without the sort of line 21
SortValuesNone(df, name) == df

\* df.sort_values(name).reset_index(drop=True)
SortValues(df, name) ==
    LET p == SortOrder(Col(df, name))
    IN  Frame(df.n, [c \in 1..Len(df.cols) |->
                       Column(df.cols[c].name, df.cols[c].dtype,
                              [i \in 1..df.n |-> df.cols[c].vals[p[i]]])])

(***************************************************************************)
(* mmm/data/validation.py                                                  *)
(***************************************************************************)
role_target == <<"t","a","r","g","e","t">>
role_media == <<"m","e","d","i","a">>
role_event == <<"e","v","e","n","t">>

\* pd.api.types.is_numeric_dtype
is_numeric_dtype(column) == column.dtype = "float64"

\* the checks of one column (lines 37-56); "" when the column passes
ValidateColumn(column) ==
    LET role == infer_role(column.name)
        AnyCell(P(_)) == \E i \in 1..Len(column.vals) : P(column.vals[i])
        OutOfUnit(v) == LtZero(v) \/ GtOne(v)
    IN  IF ~role.ok THEN "naming"
        ELSE IF ~is_numeric_dtype(column) THEN "numeric"
        ELSE IF role.role = role_target /\ AnyCell(IsNa) THEN "target_nan"
        ELSE IF role.role = role_media /\ AnyCell(LtZero) THEN "media_negative"
        ELSE IF role.role = role_event /\ AnyCell(OutOfUnit) THEN "event_range"
        ELSE ""

\* the loop of lines 34-56 from column i on: the first failure, or ""
RECURSIVE ValidateColumns(_, _)
ValidateColumns(df, i) ==
    IF i > Len(df.cols) THEN ""
    ELSE IF df.cols[i].name = DATE_COLUMN THEN ValidateColumns(df, i + 1)
    ELSE LET OrNext(failure) == IF failure # "" THEN failure
                                ELSE ValidateColumns(df, i + 1)
         IN  OrNext(ValidateColumn(df.cols[i]))

\* validate_dataset(df, freq): the message of the ValidationError raised, or ""
validate_dataset(df, freq) ==
    IF ~HasCol(df, DATE_COLUMN) THEN "date_missing"
    ELSE LET s == ToDatetime(Col(df, DATE_COLUMN)).vals
             n == Len(s)
         IN  IF \E i \in 1..n : IsNa(s[i]) THEN "date_unparsed"
             ELSE IF \E i, j \in 1..n : i < j /\ s[i] = s[j] THEN "date_duplicate"
             ELSE IF ~(\A i \in 1..(n - 1) : s[i].a <= s[i + 1].a) THEN "date_unsorted"
             ELSE ValidateColumns(df, 1)

(***************************************************************************)
(* mmm/data/dataset.py                                                     *)
(***************************************************************************)
None == "None"
MMMDataSet(df, freq) == [df |-> df, freq |-> freq]
NoFrame == Frame(0, <<>>)
NoDataSet == MMMDataSet(NoFrame, None)

\* the outcome of a call that returns a dataset: kind "ok" with ds, or kind
\* "error" with the exception's class and message
DsRaise(cls, msg) == [kind |-> "error", cls |-> cls, msg |-> msg, ds |-> NoDataSet]
DsReturn(ds) == [kind |-> "ok", cls |-> "", msg |-> "", ds |-> ds]

\* obj.validate(), then return obj (lines 23-24): validate_dataset raises
\* ValidationError, or obj is returned
Validated(obj) ==
    LET Outcome(failure) == IF failure # "" THEN DsRaise("ValidationError", failure)
                            ELSE DsReturn(obj)
    IN  Outcome(validate_dataset(obj.df, obj.freq))

\* from_dataframe constructing the object without obj.validate() (line 23)
from_dataframe_unvalidated(df, freq) ==
    IF ~HasCol(df, DATE_COLUMN) THEN DsRaise("KeyError", "date")
    ELSE DsReturn(MMMDataSet(
            SortValues(SetCol(df, ToDatetime(Col(df, DATE_COLUMN))), DATE_COLUMN), freq))

\* MMMDataSet.from_dataframe(df, freq); df[DATE_COLUMN] of line 20 raises KeyError
\* when the column is missing
from_dataframe(df, freq) ==
    IF ~HasCol(df, DATE_COLUMN) THEN DsRaise("KeyError", "date")
    ELSE Validated(MMMDataSet(
            SortValues(SetCol(df, ToDatetime(Col(df, DATE_COLUMN))), DATE_COLUMN), freq))

\* between with the interval open at both ends
between_open(dataset, start, end) ==
    IF start.fn # "dt" \/ end.fn # "dt" THEN DsRaise("ValueError", "date_parse")
    ELSE LET date == Col(dataset.df, DATE_COLUMN).vals
             kept == SelectSeq([r \in 1..dataset.df.n |-> r],
                               LAMBDA r : date[r].a > start.a /\ date[r].a < end.a)
         IN  DsReturn(MMMDataSet(
                Frame(Len(kept), [c \in 1..Len(dataset.df.cols) |->
                    Column(dataset.df.cols[c].name, dataset.df.cols[c].dtype,
                           [i \in 1..Len(kept) |-> dataset.df.cols[c].vals[kept[i]]])]),
                dataset.freq))

\* dataset.between(start, end): pd.to_datetime raises on text that is no date;
\* the rows under the mask, in their order, in a new table; validate is not run
between(dataset, start, end) ==
    IF start.fn # "dt" \/ end.fn # "dt" THEN DsRaise("ValueError", "date_parse")
    ELSE LET date == Col(dataset.df, DATE_COLUMN).vals
             kept == SelectSeq([r \in 1..dataset.df.n |-> r],
                               LAMBDA r : date[r].a >= start.a /\ date[r].a <= end.a)
         IN  DsReturn(MMMDataSet(
                Frame(Len(kept), [c \in 1..Len(dataset.df.cols) |->
                    Column(dataset.df.cols[c].name, dataset.df.cols[c].dtype,
                           [i \in 1..Len(kept) |-> dataset.df.cols[c].vals[kept[i]]])]),
                dataset.freq))

\* mmm.dataset.dataset.MMMDataSet.from_dataframe, which trend.py imports: the
\* copy of the dataset module that the specification describes
dataset_from_dataframe(df, freq) == from_dataframe(df, freq)

(***************************************************************************)
(* mmm/features: transformers.  A transformer is the record of its         *)
(* constructor arguments (one shape for the three classes, the fields of   *)
(* the other classes left at their defaults).                              *)
(***************************************************************************)
Transformer(type, normalize, col_name, has_dates, dates, has_events, events, default_event_name, period, order) ==
    [type |-> type, normalize |-> normalize, col_name |-> col_name,
     has_dates |-> has_dates, dates |-> dates,
     has_events |-> has_events, events |-> events,
     default_event_name |-> default_event_name, period |-> period, order |-> order]

EventTransformer(has_dates, dates, has_events, events, default_event_name) ==
    Transformer("EventTransformer", FALSE, <<>>, has_dates, dates, has_events, events,
                default_event_name, 0, 0)
SeasonalityTransformer(period, order) ==
    Transformer("SeasonalityTransformer", FALSE, <<>>, FALSE, <<>>, FALSE, <<>>, <<>>,
                period, order)
TrendTransformer(normalize, col_name) ==
    Transformer("TrendTransformer", normalize, col_name, FALSE, <<>>, FALSE, <<>>, <<>>,
                0, 0)

\* FeatureStepReport; FeatureReport is the sequence of its steps
FeatureStepReport(transformer, added_features) ==
    [transformer |-> transformer, added_features |-> added_features]
\* FeatureReport.added_features
RECURSIVE added_features(_)
added_features(steps) ==
    IF steps = <<>> THEN <<>> ELSE Head(steps).added_features \o added_features(Tail(steps))

\* the outcome of transform / fit_transform / run
FtRaise(cls, msg) ==
    [kind |-> "error", cls |-> cls, msg |-> msg, ds |-> NoDataSet, report |-> <<>>]
FtReturn(ds, report) ==
    [kind |-> "ok", cls |-> "", msg |-> "", ds |-> ds, report |-> report]
\* (enriched, report) once MMMDataSet.from_dataframe(df) has returned or raised
Enriched(made, step) ==
    IF made.kind = "error" THEN FtRaise(made.cls, made.msg)
    ELSE FtReturn(made.ds, <<step>>)

(***************************************************************************)
(* mmm/features/events.py                                                  *)
(***************************************************************************)
_is_valid_snake_case(name) ==
    IF name = <<>> THEN FALSE
    ELSE IF ContainsSep(name) THEN FALSE
    ELSE IF name[1] \notin Lower THEN FALSE
    ELSE \A i \in 1..Len(name) : name[i] = "_" \/ name[i] \in Lower \/ name[i] \in Digit

\* EventTransformer.__init__: "" or the message of the ValueError raised
EventInit(has_dates, has_events, default_event_name) ==
    IF (~has_dates /\ ~has_events) \/ (has_dates /\ has_events) THEN "exactly_one"
    ELSE IF ~_is_valid_snake_case(default_event_name) THEN "default_event_name"
    ELSE ""

\* _to_datetime_index: errors="raise", then normalize()
DatesParse(values) == \A i \in 1..Len(values) : values[i].fn = "dt"
_to_datetime_index(values) == { Normalize(values[i].a) : i \in 1..Len(values) }

\* code points order the characters of a name
CharOrder == <<"0","1","2","3","4","5","6","7","8","9","A","B","C","_",
               "a","b","c","d","e","f","g","h","i","j","k","l","m",
               "n","o","p","q","r","s","t","u","v","w","x","y","z">>
Ord(ch) == CHOOSE i \in 1..Len(CharOrder) : CharOrder[i] = ch
RECURSIVE StrLess(_, _)
StrLess(s, t) ==
    IF t = <<>> THEN FALSE
    ELSE IF s = <<>> THEN TRUE
    ELSE IF Head(s) # Head(t) THEN Ord(Head(s)) < Ord(Head(t))
    ELSE StrLess(Tail(s), Tail(t))

\* fit without the sort of line 90
SortSpecsNone(specs) == specs

\* specs.sort(key=lambda s: s.name)
SortSpecs(specs) ==
    LET n == Len(specs)
        p == CHOOSE q \in [1..n -> 1..n] :
                /\ \A i, j \in 1..n : i # j => q[i] # q[j]
                /\ \A i, j \in 1..n : i < j =>
                      \/ StrLess(specs[q[i]].name, specs[q[j]].name)
                      \/ specs[q[i]].name = specs[q[j]].name /\ q[i] < q[j]
    IN  [i \in 1..n |-> specs[p[i]]]

\* the loop of lines 83-87 from entry i on: the specs, or the first failure
RECURSIVE EventSpecs(_, _, _)
EventSpecs(events, i, specs) ==
    IF i > Len(events) THEN [err |-> "", specs |-> specs]
    ELSE IF ~_is_valid_snake_case(events[i][1])
    THEN [err |-> "invalid_event_name", specs |-> <<>>]
    ELSE IF ~DatesParse(events[i][2]) THEN [err |-> "date_parse", specs |-> <<>>]
    ELSE EventSpecs(events, i + 1,
                    Append(specs, [name |-> events[i][1],
                                   dates |-> _to_datetime_index(events[i][2])]))

\* EventTransformer.fit: self._specs, or the message of the ValueError raised
EventFit(t) ==
    IF t.has_dates
    THEN IF ~DatesParse(t.dates) THEN [err |-> "date_parse", specs |-> <<>>]
         ELSE [err |-> "",
               specs |-> <<[name |-> t.default_event_name,
                            dates |-> _to_datetime_index(t.dates)]>>]
    ELSE LET r == EventSpecs(t.events, 1, <<>>)
         IN  IF r.err # "" THEN r ELSE [err |-> "", specs |-> SortSpecs(r.specs)]

event_prefix == <<"e","v","e","n","t","_","_">>

\* the loop of lines 98-108 from spec i on
RECURSIVE EventLoop(_, _, _, _)
EventLoop(df, specs, i, added) ==
    IF i > Len(specs) THEN [err |-> "", df |-> df, added |-> added]
    ELSE LET col == event_prefix \o specs[i].name
             ds_dates == Col(df, DATE_COLUMN).vals
             is_event == [r \in 1..df.n |->
                            IF Normalize(ds_dates[r].a) \in specs[i].dates
                            THEN Num(1, 1) ELSE Num(0, 1)]
         IN  IF HasCol(df, col) THEN [err |-> "duplicate_column", df |-> df, added |-> added]
             ELSE EventLoop(SetCol(df, Column(col, "float64", is_event)), specs, i + 1,
                            Append(added, col))

\* EventTransformer.transform, self._specs being specs
EventTransform(specs, dataset) ==
    LET Finish(r) ==
            IF r.err # "" THEN FtRaise("ValueError", r.err)
            ELSE Enriched(from_dataframe(r.df, None),
                          FeatureStepReport("EventTransformer", r.added))
    IN  Finish(EventLoop(dataset.df, specs, 1, <<>>))

(***************************************************************************)
(* mmm/features/seasonality.py                                             *)
(***************************************************************************)
\* SeasonalityTransformer.__init__: "" or the message of the ValueError raised
SeasonalityInit(period, order) ==
    IF period <= 1 THEN "period" ELSE IF order < 1 THEN "order" ELSE ""

\* str(n) of a natural number, as the f-strings format it
DigitChar(d) == <<"0","1","2","3","4","5","6","7","8","9">>[d + 1]
RECURSIVE IntStr(_)
IntStr(n) == IF n < 10 THEN <<DigitChar(n)>> ELSE IntStr(n \div 10) \o <<DigitChar(n % 10)>>

fourier_prefix == <<"b","a","s","e","l","i","n","e","_","_","s","e","a","s","o","n","a","l","i","t","y","_","_","f","o","u","r","i","e","r","_","_","p">>
sin_col(period, k) == fourier_prefix \o IntStr(period) \o <<"_","_","k">> \o IntStr(k) \o <<"_","_","s","i","n">>
cos_col(period, k) == fourier_prefix \o IntStr(period) \o <<"_","_","k">> \o IntStr(k) \o <<"_","_","c","o","s">>

\* the loop with t = arange(1, n + 1) in the place of line 41
RECURSIVE SeasonalityLoopOneBased(_, _, _, _)
SeasonalityLoopOneBased(df, t, k, added) ==
    IF k > t.order THEN [err |-> "", df |-> df, added |-> added]
    ELSE IF HasCol(df, sin_col(t.period, k)) \/ HasCol(df, cos_col(t.period, k))
    THEN [err |-> "duplicate_column", df |-> df, added |-> added]
    ELSE LET df1 == SetCol(df, Column(sin_col(t.period, k), "float64",
                                      [r \in 1..df.n |-> Sin(k, r, t.period)]))
             df2 == SetCol(df1, Column(cos_col(t.period, k), "float64",
                                       [r \in 1..df.n |-> Cos(k, r, t.period)]))
         IN  SeasonalityLoopOneBased(df2, t, k + 1,
                                     added \o <<sin_col(t.period, k), cos_col(t.period, k)>>)

\* the loop of lines 45-57 from harmonic k on; t = arange(n) is the row index
RECURSIVE SeasonalityLoop(_, _, _, _)
SeasonalityLoop(df, t, k, added) ==
    IF k > t.order THEN [err |-> "", df |-> df, added |-> added]
    ELSE IF HasCol(df, sin_col(t.period, k)) \/ HasCol(df, cos_col(t.period, k))
    THEN [err |-> "duplicate_column", df |-> df, added |-> added]
    ELSE LET df1 == SetCol(df, Column(sin_col(t.period, k), "float64",
                                      [r \in 1..df.n |-> Sin(k, r - 1, t.period)]))
             df2 == SetCol(df1, Column(cos_col(t.period, k), "float64",
                                       [r \in 1..df.n |-> Cos(k, r - 1, t.period)]))
         IN  SeasonalityLoop(df2, t, k + 1,
                             added \o <<sin_col(t.period, k), cos_col(t.period, k)>>)

SeasonalityTransform(t, dataset) ==
    LET Finish(r) ==
            IF r.err # "" THEN FtRaise("ValueError", r.err)
            ELSE Enriched(from_dataframe(r.df, None),
                          FeatureStepReport("SeasonalityTransformer", r.added))
    IN  Finish(SeasonalityLoop(dataset.df, t, 1, <<>>))

(***************************************************************************)
(* mmm/features/trend.py                                                   *)
(***************************************************************************)
default_col_name == <<"b","a","s","e","l","i","n","e","_","_","t","r","e","n","d">>

\* lines 33-37 dividing by n in the place of n - 1
TrendSeriesByN(normalize, n) ==
    [r \in 1..n |-> IF normalize /\ n > 1 THEN Num(r - 1, n) ELSE Num(r - 1, 1)]

\* lines 33-37: range(n) as floats, divided by n - 1 when normalize and n > 1
TrendSeries(normalize, n) ==
    [r \in 1..n |-> IF normalize /\ n > 1 THEN Num(r - 1, n - 1) ELSE Num(r - 1, 1)]

\* transform without the test of line 30: the column is assigned over an
\* existing one
TrendTransformOverwrite(t, dataset) ==
    LET n == dataset.df.n
        trend == TrendSeries(t.normalize, n)
    IN  Enriched(dataset_from_dataframe(
                     SetCol(dataset.df, Column(t.col_name, "float64", trend)), None),
                 FeatureStepReport("TrendTransformer", <<t.col_name>>))

TrendTransform(t, dataset) ==
    LET df == dataset.df
        n == df.n
        trend == TrendSeries(t.normalize, n)
    IN  IF HasCol(df, t.col_name) THEN FtRaise("ValueError", "duplicate_column")
        ELSE Enriched(dataset_from_dataframe(
                          SetCol(df, Column(t.col_name, "float64", trend)), None),
                      FeatureStepReport("TrendTransformer", <<t.col_name>>))

(***************************************************************************)
(* mmm/features/base.py, mmm/features/pipeline.py                          *)
(***************************************************************************)
\* BaseTransformer.fit_transform: self.fit(dataset), then self.transform(dataset)
fit_transform(t, dataset) ==
    IF t.type = "EventTransformer"
    THEN LET Fitted(fit) == IF fit.err # "" THEN FtRaise("ValueError", fit.err)
                            ELSE EventTransform(fit.specs, dataset)
         IN  Fitted(EventFit(t))
    ELSE IF t.type = "SeasonalityTransformer" THEN SeasonalityTransform(t, dataset)
    ELSE TrendTransform(t, dataset)

\* the loop of lines 20-22 run over the transformers last to first
RECURSIVE RunLoopReversed(_, _, _, _)
RunLoopReversed(transformers, i, current, steps) ==
    IF i > Len(transformers) THEN FtReturn(current, steps)
    ELSE LET Rest(r) ==
                 IF r.kind = "error" THEN r
                 ELSE RunLoopReversed(transformers, i + 1, r.ds, steps \o r.report)
         IN  Rest(fit_transform(transformers[Len(transformers) + 1 - i], current))

\* the loop of lines 20-22 from transformer i on
RECURSIVE RunLoop(_, _, _, _)
RunLoop(transformers, i, current, steps) ==
    IF i > Len(transformers) THEN FtReturn(current, steps)
    ELSE LET Rest(r) ==
                 IF r.kind = "error" THEN r
                 ELSE RunLoop(transformers, i + 1, r.ds, steps \o r.report)
         IN  Rest(fit_transform(transformers[i], current))

\* FeaturePipeline(transformers).run(dataset)
run(transformers, dataset) ==
    LET Final(r, final) == IF final.kind = "error" THEN FtRaise(final.cls, final.msg)
                           ELSE FtReturn(final.ds, r.report)
        Finish(r) == IF r.kind = "error" THEN r
                     ELSE Final(r, from_dataframe(r.ds.df, None))
    IN  Finish(RunLoop(transformers, 1, dataset, <<>>))

(***************************************************************************)
(* What a call leaves in the table the caller handed over.  The callee     *)
(* works on a local table: df.copy() makes it another object ("copy"), so  *)
(* that what is assigned into it does not reach the caller's object        *)
(* ("arg").                                                                *)
(***************************************************************************)
Copy(df) == [obj |-> "copy", frame |-> df]

\* what the caller's table arg holds once the local table holds `written`
Leaves(arg, local, written) == IF local.obj = "arg" THEN written ELSE arg

\* the caller's table after MMMDataSet.from_dataframe(df, freq): line 20 assigns
\* the parsed dates into the local table (sort_values returns another object)
FromDataframeLeaves(df) ==
    IF ~HasCol(df, DATE_COLUMN) THEN df
    ELSE Leaves(df, Copy(df), SetCol(df, ToDatetime(Col(df, DATE_COLUMN))))

\* the input dataset's table after transform: the loop assigns the new columns
\* into the local table, up to the column that raises
EventTransformLeaves(specs, dataset) ==
    Leaves(dataset.df, Copy(dataset.df), EventLoop(dataset.df, specs, 1, <<>>).df)
SeasonalityTransformLeaves(t, dataset) ==
    Leaves(dataset.df, Copy(dataset.df), SeasonalityLoop(dataset.df, t, 1, <<>>).df)

\* trend.py with df = dataset.df in the place of line 28
TrendTransformInPlace(t, dataset) ==
    IF HasCol(dataset.df, t.col_name) THEN dataset.df
    ELSE SetCol(dataset.df,
                Column(t.col_name, "float64", TrendSeries(t.normalize, dataset.df.n)))

TrendTransformLeaves(t, dataset) ==
    Leaves(dataset.df, Copy(dataset.df),
           IF HasCol(dataset.df, t.col_name) THEN dataset.df
           ELSE SetCol(dataset.df,
                       Column(t.col_name, "float64", TrendSeries(t.normalize, dataset.df.n))))

\* the input dataset's table after t.fit_transform(dataset): fit reads nothing
\* of the dataset
FitTransformLeaves(t, dataset) ==
    IF t.type = "EventTransformer"
    THEN LET Fitted(fit) == IF fit.err # "" THEN dataset.df
                            ELSE EventTransformLeaves(fit.specs, dataset)
         IN  Fitted(EventFit(t))
    ELSE IF t.type = "SeasonalityTransformer" THEN SeasonalityTransformLeaves(t, dataset)
    ELSE TrendTransformLeaves(t, dataset)

\* the input dataset's table after run: the first transformer receives the
\* caller's dataset (line 17), the later ones what the one before returned; an
\* empty pipeline hands its table to from_dataframe (line 25)
RunLeaves(transformers, dataset) ==
    IF transformers = <<>> THEN FromDataframeLeaves(dataset.df)
    ELSE FitTransformLeaves(transformers[1], dataset)

\* the transformers the loop of lines 20-22 called fit_transform on, from
\* transformer i on: the exception of one ends the loop
RECURSIVE RunCalls(_, _, _, _)
RunCalls(transformers, i, current, calls) ==
    IF i > Len(transformers) THEN calls
    ELSE LET Rest(r) == IF r.kind = "error" THEN Append(calls, i)
                        ELSE RunCalls(transformers, i + 1, r.ds, Append(calls, i))
         IN  Rest(fit_transform(transformers[i], current))

\* what ft_after holds: the caller's table, the transformers called
After(df, calls) == [df |-> df, calls |-> calls]
NoAfter == After(NoFrame, <<>>)

(***************************************************************************)
(* The mapper's inputs: a table whose columns carry distinct labels drawn   *)
(* from SrcNames, and a mapping of at most MaxMap entries with distinct     *)
(* keys.                                                                    *)
(***************************************************************************)
SrcNames == { <<E_ACUTE, "_", "-", "B", "!", " ">>, <<"e","_","b">>, <<"i","d","_","_","x">> }
TargetNames == { <<"i","d","_","_","x">>, <<"i","d","_","_","y">>, <<"x">> }

Tables ==
    { [i \in 1..Len(ls) |-> [label |-> ls[i], col |-> i]] :
        ls \in { l \in UNION { [1..n -> SrcNames] : n \in 0..Cardinality(SrcNames) } : Injective(l) } }

Mappings ==
    { m \in UNION { [1..n -> SrcNames \X TargetNames] : n \in 0..MaxMap } :
        Injective(Keys(m)) }

Configs ==
    { [mapping |-> m, normalize |-> nz, keep_unmapped |-> ku] :
        m \in Mappings, nz \in BOOLEAN, ku \in BOOLEAN }

Apply ==
    /\ cm_res.kind = "none"
    /\ cm_res' = apply(cm_cfg, cm_df)
    /\ UNCHANGED <<cm_df, cm_cfg, nmVars, ftVars>>

(***************************************************************************)
(* The callers of the dataset layer and of the feature layer: tables of at *)
(* most MaxRows rows and MaxRawCols columns besides the date column, the   *)
(* transformers below, pipelines of at most MaxPipeline of them.  The      *)
(* caller hands the dataset a call returned to the next call; a call that  *)
(* raises ends the caller's run.                                           *)
(***************************************************************************)
DateCells == { Str, Dt(0), Dt(1), Dt(2) }
ValueCells == { Num(0 - 1, 1), Num(1, 1), Num(2, 1), NaN }
RawColNames == { <<"t","a","r","g","e","t","_","_","y">>, <<"m","e","d","i","a","_","_","m">>, <<"e","v","e","n","t","_","_","e">>, <<"y">> }
Freqs == { None, "W" }

\* the columns a caller's table may hold under a name, n rows each: any dates;
\* numbers that are all 1 but for at most one cell, or a column of text
ColumnsNamed(name, n) ==
    IF name = DATE_COLUMN
    THEN { Column(name, "object", v) : v \in [1..n -> DateCells] }
    ELSE { Column(name, "float64", v) :
             v \in { w \in [1..n -> ValueCells] :
                       Cardinality({ i \in 1..n : w[i] # Num(1, 1) }) <= 1 } }
            \cup { Column(name, "object", [i \in 1..n |-> Str]) }

RawHeaders ==
    { h \in UNION { [1..m -> RawColNames \cup {DATE_COLUMN}] : m \in 0..(MaxRawCols + 1) } :
        /\ Injective(h)
        /\ Cardinality({ i \in 1..Len(h) : h[i] # DATE_COLUMN }) <= MaxRawCols }

RECURSIVE ColumnSeqs(_, _)
ColumnSeqs(h, n) ==
    IF h = <<>> THEN { <<>> }
    ELSE { <<c>> \o rest : c \in ColumnsNamed(Head(h), n), rest \in ColumnSeqs(Tail(h), n) }

\* the tables of n rows under the header h; of more than MaxRows rows, the
\* table of consecutive days whose values are all 1
RawTables(h, n) ==
    IF n <= MaxRows THEN { Frame(n, cols) : cols \in ColumnSeqs(h, n) }
    ELSE { Frame(n, [i \in 1..Len(h) |->
                IF h[i] = DATE_COLUMN
                THEN Column(h[i], "object", [r \in 1..n |-> Dt(2 * (r - 1))])
                ELSE Column(h[i], "float64", [r \in 1..n |-> Num(1, 1)])]) }

EventTransformers ==
    { EventTransformer(TRUE, <<Dt(1)>>, FALSE, <<>>, <<"e">>),
      EventTransformer(TRUE, <<Dt(6)>>, FALSE, <<>>, <<"p","_">>),
      EventTransformer(FALSE, <<>>, TRUE,
                       << <<<<"p">>, <<Dt(0), Dt(3)>>>>, <<<<"e">>, <<Dt(2)>>>> >>, <<"e","v","e","n","t">>),
      EventTransformer(FALSE, <<>>, TRUE, << <<<<"e">>, <<Dt(0)>>>>, <<<<"E">>, <<Dt(0)>>>> >>, <<"e","v","e","n","t">>),
      EventTransformer(FALSE, <<>>, TRUE, <<>>, <<"e","v","e","n","t">>),
      EventTransformer(TRUE, <<Dt(1)>>, TRUE, <<>>, <<"e","v","e","n","t">>),
      EventTransformer(FALSE, <<>>, FALSE, <<>>, <<"e","v","e","n","t">>),
      EventTransformer(TRUE, <<Dt(1)>>, FALSE, <<>>, <<"E">>) }
SeasonalityTransformers ==
    { SeasonalityTransformer(2, 1), SeasonalityTransformer(12, 2),
      SeasonalityTransformer(1, 1), SeasonalityTransformer(2, 0) }
TrendTransformers ==
    { TrendTransformer(nz, name) :
        nz \in BOOLEAN, name \in { default_col_name, <<"e","v","e","n","t","_","_","e">>, <<"T">> } }

\* TrendTransformer.__init__: assignments only, nothing is raised
TrendInit(normalize, col_name) == ""

\* the constructor of t's class on t's arguments: "" or the message of the
\* ValueError raised
InitOf(t) ==
    IF t.type = "EventTransformer"
    THEN EventInit(t.has_dates, t.has_events, t.default_event_name)
    ELSE IF t.type = "SeasonalityTransformer" THEN SeasonalityInit(t.period, t.order)
    ELSE TrendInit(t.normalize, t.col_name)

Constructed ==
    { t \in EventTransformers :
        EventInit(t.has_dates, t.has_events, t.default_event_name) = "" }
    \cup { t \in SeasonalityTransformers : SeasonalityInit(t.period, t.order) = "" }
    \cup TrendTransformers

\* the transformers pipelines are made of
Stages ==
    { t \in Constructed :
        \/ t.type = "TrendTransformer" /\ t.normalize /\ t.col_name = default_col_name
        \/ t.type = "EventTransformer" /\ (t.has_events => t.events # <<>>)
                                      /\ (t.has_dates => t.dates = <<Dt(1)>>)
        \/ t.type = "SeasonalityTransformer" /\ t.order = 1 }

Pipelines == UNION { [1..m -> Stages] : m \in 0..MaxPipeline }

NoCall == [op |-> "none", df |-> NoFrame, freq |-> None, ds |-> NoDataSet,
           transformers |-> <<>>, args |-> <<>>]
NoOut == [kind |-> "none", cls |-> "", msg |-> "", ds |-> NoDataSet, report |-> <<>>]

\* what the caller of from_dataframe gets: the dataset, or the exception
DsOut(made) ==
    [kind |-> made.kind, cls |-> made.cls, msg |-> made.msg, ds |-> made.ds,
     report |-> <<>>]

\* MMMDataSet.from_dataframe(df, freq) on a table of the caller: the caller's
\* first call (the constructor reads nothing of what was called before)
FromDataframe ==
    /\ ft_call.op = "none"
    /\ \E h \in RawHeaders, n \in 0..(MaxRows + MaxLongRows), freq \in Freqs : \E df \in RawTables(h, n) :
        /\ ft_call' = [op |-> "from_dataframe", df |-> df, freq |-> freq,
                       ds |-> NoDataSet, transformers |-> <<>>, args |-> <<>>]
        /\ ft_out' = DsOut(from_dataframe(df, freq))
        /\ ft_after' = After(FromDataframeLeaves(df), <<>>)
        /\ UNCHANGED <<nmVars, cmVars>>

\* a transformer's constructor on arguments of the caller: the object is
\* constructed, or ValueError is raised
ConstructTransformer ==
    /\ ft_call.op = "none"
    /\ \E t \in EventTransformers \cup SeasonalityTransformers \cup TrendTransformers :
        /\ ft_call' = [op |-> "construct", df |-> NoFrame, freq |-> None,
                       ds |-> NoDataSet, transformers |-> <<t>>, args |-> <<>>]
        /\ ft_out' = IF InitOf(t) # "" THEN FtRaise("ValueError", InitOf(t))
                      ELSE [NoOut EXCEPT !.kind = "constructed"]
        /\ ft_after' = NoAfter
    /\ UNCHANGED <<nmVars, cmVars>>

\* t.fit_transform(dataset) on the dataset the last call returned
FitTransform(t) ==
    /\ ft_out.kind = "ok" /\ ft_call.op # "between"
    /\ Len(ft_out.ds.df.cols) <= MaxDsCols
    /\ LET out == fit_transform(t, ft_out.ds)
       IN  /\ ft_call' = [op |-> "fit_transform", df |-> NoFrame, freq |-> None,
                          ds |-> ft_out.ds, transformers |-> <<t>>, args |-> <<>>]
           /\ ft_out' = out
           /\ ft_after' = After(FitTransformLeaves(t, ft_out.ds), <<>>)
    /\ UNCHANGED <<nmVars, cmVars>>

EventFitTransform == \E t \in Constructed : t.type = "EventTransformer" /\ FitTransform(t)
SeasonalityFitTransform ==
    \E t \in Constructed : t.type = "SeasonalityTransformer" /\ FitTransform(t)
TrendFitTransform == \E t \in Constructed : t.type = "TrendTransformer" /\ FitTransform(t)

\* dataset.between(start, end) on the dataset the last call returned, the
\* caller's last call; the method reads the dataset's table and writes nothing
BetweenArgs == { Str, Dt(1), Dt(2), Dt(4) }
Between ==
    /\ ft_out.kind = "ok" /\ ft_call.op # "between"
    /\ \E start \in BetweenArgs, end \in BetweenArgs :
        /\ ft_call' = [op |-> "between", df |-> NoFrame, freq |-> None,
                       ds |-> ft_out.ds, transformers |-> <<>>, args |-> <<start, end>>]
        /\ ft_out' = DsOut(between(ft_out.ds, start, end))
        /\ ft_after' = After(ft_out.ds.df, <<>>)
    /\ UNCHANGED <<nmVars, cmVars>>

\* FeaturePipeline(transformers).run(dataset) on the dataset the last call returned
PipelineRun ==
    /\ ft_out.kind = "ok" /\ ft_call.op # "between"
    /\ Len(ft_out.ds.df.cols) <= MaxDsCols
    /\ \E transformers \in Pipelines :
         LET out == run(transformers, ft_out.ds)
         IN  /\ ft_call' = [op |-> "run", df |-> NoFrame, freq |-> None,
                            ds |-> ft_out.ds, transformers |-> transformers, args |-> <<>>]
             /\ ft_out' = out
             /\ ft_after' = After(RunLeaves(transformers, ft_out.ds),
                                  RunCalls(transformers, 1, ft_out.ds, <<>>))
     /\ UNCHANGED <<nmVars, cmVars>>

(***************************************************************************)
(* The naming harness: a name is drawn, and one of the naming functions is *)
(* applied to it.                                                          *)
(***************************************************************************)
Pieces == { <<"i","d">>, <<"d","a","t","e">>, <<"_","_">>, <<"_">>, <<"d">>, <<"1">>, <<"A">>, <<" ">> }

RECURSIVE Flatten(_)
Flatten(ps) == IF ps = <<>> THEN <<>> ELSE Head(ps) \o Flatten(Tail(ps))

Names == { Flatten(ps) : ps \in UNION { [1..n -> Pieces] : n \in 0..MaxPieces } }

NoRet == [b |-> FALSE, parsed |-> NoParse]

CallIsValidColumnName ==
    /\ nm_call = "none"
    /\ nm_call' = "is_valid_column_name"
    /\ nm_ret' = [b |-> is_valid_column_name(nm_name), parsed |-> NoParse]
    /\ UNCHANGED <<nm_name, cmVars, ftVars>>

CallParseColumnName ==
    /\ nm_call = "none"
    /\ nm_call' = "parse_column_name"
    /\ nm_ret' = [b |-> parse_column_name(nm_name).ok, parsed |-> parse_column_name(nm_name)]
    /\ UNCHANGED <<nm_name, cmVars, ftVars>>

CallInferRole ==
    /\ nm_call = "none"
    /\ nm_call' = "infer_role"
    /\ nm_ret' = [b |-> infer_role(nm_name).ok,
                  parsed |-> [ok |-> infer_role(nm_name).ok,
                              role |-> infer_role(nm_name).role, parts |-> <<>>]]
    /\ UNCHANGED <<nm_name, cmVars, ftVars>>

CallIsValidMmmColumnName ==
    /\ nm_call = "none"
    /\ nm_call' = "is_valid_mmm_column_name"
    /\ nm_ret' = [b |-> is_valid_mmm_column_name(nm_name), parsed |-> NoParse]
    /\ UNCHANGED <<nm_name, cmVars, ftVars>>

NoDf == <<>>
NoCfg == [mapping |-> <<>>, normalize |-> FALSE, keep_unmapped |-> TRUE]
NoRes == [kind |-> "none", cls |-> "", msg |-> "", detail |-> <<>>,
          out_df |-> <<>>, report |-> NoReport]

InitNaming ==
    /\ nm_name \in Names
    /\ nm_call = "none"
    /\ nm_ret = NoRet
    /\ cm_df = NoDf
    /\ cm_cfg = NoCfg
    /\ cm_res = NoRes
    /\ ft_call = NoCall
    /\ ft_out = NoOut
    /\ ft_after = NoAfter

NextNaming ==
    \/ CallIsValidColumnName
    \/ CallParseColumnName
    \/ CallInferRole
    \/ CallIsValidMmmColumnName

SpecNaming == InitNaming /\ [][NextNaming]_vars

InitMapper ==
    /\ cm_df \in Tables
    /\ cm_cfg \in Configs
    /\ cm_res = NoRes
    /\ nm_name = <<>>
    /\ nm_call = "none"
    /\ nm_ret = NoRet
    /\ ft_call = NoCall
    /\ ft_out = NoOut
    /\ ft_after = NoAfter

NextMapper == Apply

SpecMapper == InitMapper /\ [][NextMapper]_vars

InitFeatures ==
    /\ ft_call = NoCall
    /\ ft_out = NoOut
    /\ ft_after = NoAfter
    /\ nm_name = <<>>
    /\ nm_call = "none"
    /\ nm_ret = NoRet
    /\ cm_df = NoDf
    /\ cm_cfg = NoCfg
    /\ cm_res = NoRes

NextFeatures ==
    \/ FromDataframe
    \/ ConstructTransformer
    \/ EventFitTransform
    \/ SeasonalityFitTransform
    \/ TrendFitTransform
    \/ PipelineRun
    \/ Between

SpecFeatures == InitFeatures /\ [][NextFeatures]_vars

(***************************************************************************)
(* Claims about the naming grammar (SpecNaming).                           *)
(***************************************************************************)
ParseCalled == nm_call = "parse_column_name"

IsSegment(seg) ==
    /\ seg # <<>>
    /\ seg[1] \in Lower
    /\ \A i \in 1..Len(seg) : seg[i] \in Lower \cup Digit \cup {"_"}
    /\ seg[1] # "_" /\ seg[Len(seg)] # "_"

\* C7: whenever parse_column_name succeeds on a name other than "date", the
\* role is an allowed role, there is at least one segment and every segment
\* satisfies the token grammar.
C7_FullParse ==
    (ParseCalled /\ nm_ret.parsed.ok /\ nm_name # DATE_COLUMN) =>
        /\ nm_ret.parsed.role \in ALLOWED_ROLES
        /\ Len(nm_ret.parsed.parts) >= 1
        /\ \A i \in 1..Len(nm_ret.parsed.parts) : IsSegment(nm_ret.parsed.parts[i])

\* C8: a name passes the mapper's target-grammar check if and only if a column
\* of that name passes the dataset contract's name check (it is the date
\* column or infer_role is defined on it).
C8_SameGrammar ==
    nm_call = "is_valid_mmm_column_name" =>
        (nm_ret.b <=> (nm_name = DATE_COLUMN \/ infer_role(nm_name).ok))

(***************************************************************************)
(* Claims about ColumnMapper.apply (SpecMapper).                           *)
(***************************************************************************)
Applied == cm_res.kind # "none"

\* what each check of apply examines, stated on the inputs
OriginalLabels == Labels(cm_df)
NormalizationCollides ==
    \E i, j \in 1..Len(cm_df) :
        /\ OriginalLabels[i] # OriginalLabels[j]
        /\ default_normalizer(OriginalLabels[i]) = default_normalizer(OriginalLabels[j])
WorkingLabels ==
    IF cm_cfg.normalize
    THEN { default_normalizer(OriginalLabels[i]) : i \in 1..Len(cm_df) }
    ELSE Range(OriginalLabels)
WorkingMapping ==
    IF cm_cfg.normalize THEN DictMapKeys(cm_cfg.mapping, 1, <<>>) ELSE cm_cfg.mapping
Violates1 == cm_cfg.normalize /\ NormalizationCollides
Violates2 == \E i \in 1..Len(WorkingMapping) : WorkingMapping[i][1] \notin WorkingLabels
Violates3 == \E i \in 1..Len(WorkingMapping) : ~is_valid_mmm_column_name(WorkingMapping[i][2])
Violates4 ==
    \E i, j \in 1..Len(WorkingMapping) : i # j /\ WorkingMapping[i][2] = WorkingMapping[j][2]
Violates5 ==
    /\ cm_cfg.keep_unmapped
    /\ \E c \in WorkingLabels :
         /\ \A i \in 1..Len(WorkingMapping) : WorkingMapping[i][1] # c
         /\ \E i \in 1..Len(WorkingMapping) : WorkingMapping[i][2] = c

Raised(cls, msg) ==
    /\ cm_res.kind = "error" /\ cm_res.cls = cls /\ cm_res.msg = msg
    /\ cm_res.out_df = <<>> /\ cm_res.report = NoReport

\* C2: the error apply raises is the one of the earliest violated check in the
\* order normalization-collision, source-missing, invalid-target-name,
\* two-sources-one-target, target-shadows-kept-unmapped-column; with it no
\* table and no report is produced; apply succeeds when no check is violated.
C2_FirstViolatedCheck ==
    Applied =>
        IF Violates1 THEN Raised("SourceNormalizationCollisionError", "normalization")
        ELSE IF Violates2 THEN Raised("SourceColumnMissingError", "missing")
        ELSE IF Violates3 THEN Raised("InvalidTargetColumnNameError", "invalid")
        ELSE IF Violates4 THEN Raised("TargetColumnCollisionError", "same_target")
        ELSE IF Violates5 THEN Raised("TargetColumnCollisionError", "unmapped")
        ELSE cm_res.kind = "ok"

\* apply raised the two-sources-one-target collision on an input whose target
\* is also the name of a kept unmapped column
C2_Witness ==
    /\ Applied /\ ~Violates1 /\ ~Violates2 /\ ~Violates3 /\ Violates4 /\ Violates5
    /\ cm_res.cls = "TargetColumnCollisionError" /\ cm_res.msg = "same_target"

\* the column of the caller's table that the working mapping's i-th entry renames
SourceColumn(i) ==
    CHOOSE c \in 1..Len(cm_df) :
        (IF cm_cfg.normalize THEN default_normalizer(OriginalLabels[c])
         ELSE OriginalLabels[c]) = WorkingMapping[i][1]

\* C3: with keep_unmapped=False, whenever checks 1-4 pass, apply succeeds, the
\* output's columns are exactly the mapped columns under their target names,
\* one per mapping entry, every unmapped column is listed in dropped_columns
\* and unmapped_columns is empty.
C3_DropUnmapped ==
    (Applied /\ ~cm_cfg.keep_unmapped
        /\ ~Violates1 /\ ~Violates2 /\ ~Violates3 /\ ~Violates4) =>
        /\ cm_res.kind = "ok"
        /\ Len(cm_res.out_df) = Len(WorkingMapping)
        /\ Range(cm_res.out_df) =
             { [label |-> WorkingMapping[i][2], col |-> SourceColumn(i)] :
                 i \in 1..Len(WorkingMapping) }
        /\ Range(cm_res.report.dropped_columns) =
             { c \in WorkingLabels : \A i \in 1..Len(WorkingMapping) : WorkingMapping[i][1] # c }
        /\ cm_res.report.unmapped_columns = <<>>

\* C10: with normalization enabled apply fails with normalization-collision if
\* and only if two distinct original names normalize to the same string;
\* otherwise, on success, the report's original->normalized map has exactly one
\* entry per original column; with normalization disabled the map is absent.
C10_NormalizationCollision ==
    Applied =>
        /\ cm_cfg.normalize =>
             (cm_res.cls = "SourceNormalizationCollisionError" <=> NormalizationCollides)
        /\ ~cm_cfg.normalize => cm_res.cls # "SourceNormalizationCollisionError"
        /\ (cm_res.kind = "ok" /\ cm_cfg.normalize) =>
             /\ cm_res.report.has_normalized
             /\ Len(cm_res.report.normalized_columns) = Len(cm_df)
             /\ \A i \in 1..Len(cm_df) :
                  cm_res.report.normalized_columns[i] =
                      <<OriginalLabels[i], default_normalizer(OriginalLabels[i])>>
        /\ (cm_res.kind = "ok" /\ ~cm_cfg.normalize) =>
             /\ ~cm_res.report.has_normalized
             /\ cm_res.report.normalized_columns = <<>>

\* apply raised normalization-collision on a table of three columns
C10_Witness ==
    /\ Applied /\ cm_cfg.normalize /\ Len(cm_df) = 3
    /\ cm_res.cls = "SourceNormalizationCollisionError"

(***************************************************************************)
(* Claims about the dataset contract, the transformers and the pipeline    *)
(* (SpecFeatures).                                                         *)
(***************************************************************************)
Returned == ft_out.kind = "ok"
NothingReturned == ft_out.ds = NoDataSet /\ ft_out.report = <<>>

\* the dataset contract, as the data model states it; a missing value (NaN) is
\* no value: only a target column may not hold one
Contract(df) ==
    /\ Cardinality({ i \in 1..Len(df.cols) : df.cols[i].name = DATE_COLUMN }) = 1
    /\ \A i \in 1..Len(df.cols) :
         LET column == df.cols[i]
             IsRole(r) == SubSeq(column.name, 1, Len(r) + 2) = r \o <<"_", "_">>
         IN  IF column.name = DATE_COLUMN
             THEN /\ \A r \in 1..df.n : column.vals[r].fn = "dt"
                  /\ \A r, q \in 1..df.n : r < q => column.vals[r].a < column.vals[q].a
             ELSE /\ parse_column_name(column.name).ok
                  /\ column.dtype = "float64"
                  /\ \A r \in 1..df.n :
                       LET v == column.vals[r]
                       IN  /\ v.fn \in {"num", "nan", "sin", "cos"}
                           /\ IsRole(<<"t","a","r","g","e","t">>) => v.fn # "nan"
                           /\ IsRole(<<"m","e","d","i","a">>) => ~(v.fn = "num" /\ v.a < 0)
                           /\ IsRole(<<"e","v","e","n","t">>) =>
                                (v.fn = "nan" \/ (v.fn = "num" /\ 0 <= v.a /\ v.a <= v.b))

IntendedCols(t) ==
    IF t.type = "EventTransformer"
    THEN IF t.has_dates THEN { <<"e","v","e","n","t","_","_">> \o t.default_event_name }
         ELSE { <<"e","v","e","n","t","_","_">> \o t.events[i][1] : i \in 1..Len(t.events) }
    ELSE IF t.type = "SeasonalityTransformer"
    THEN UNION { { <<"b","a","s","e","l","i","n","e","_","_","s","e","a","s","o","n","a","l","i","t","y","_","_","f","o","u","r","i","e","r","_","_","p">> \o IntStr(t.period) \o <<"_","_","k">>
                      \o IntStr(k) \o <<"_","_","s","i","n">>,
                   <<"b","a","s","e","l","i","n","e","_","_","s","e","a","s","o","n","a","l","i","t","y","_","_","f","o","u","r","i","e","r","_","_","p">> \o IntStr(t.period) \o <<"_","_","k">>
                      \o IntStr(k) \o <<"_","_","c","o","s">> } : k \in 1..t.order }
    ELSE { t.col_name }

TransformCalled == ft_call.op = "fit_transform" /\ EventFit(ft_call.transformers[1]).err = ""
InputColNames == Range(ColNames(ft_call.ds.df))

\* C4: a fitted transformer whose intended columns meet the input's columns
\* fails with duplicate-column and returns no dataset; one that succeeds has
\* added every intended column and left every input column as it was (so a
\* second application to its own output meets its own columns and fails).
C4_DuplicateColumnFails ==
    TransformCalled =>
        LET t == ft_call.transformers[1]
        IN  /\ IntendedCols(t) \cap InputColNames # {} =>
                 /\ ft_out.kind = "error" /\ ft_out.cls = "ValueError"
                 /\ ft_out.msg = "duplicate_column"
                 /\ NothingReturned
            /\ Returned =>
                 /\ IntendedCols(t) \subseteq Range(ColNames(ft_out.ds.df))
                 /\ \A i \in 1..Len(ft_call.ds.df.cols) :
                      ft_out.ds.df.cols[i] = ft_call.ds.df.cols[i]

\* a transformer was applied to a dataset that holds all the columns it adds,
\* as its own output does, and failed with duplicate-column
C4_Witness ==
    /\ TransformCalled
    /\ IntendedCols(ft_call.transformers[1]) # {}
    /\ IntendedCols(ft_call.transformers[1]) \subseteq InputColNames
    /\ ft_out.kind = "error" /\ ft_out.msg = "duplicate_column"

\* the dataset the i-th transformer of a pipeline receives: the one the
\* transformer before it returned
RECURSIVE Threaded(_, _, _)
Threaded(transformers, i, dataset) ==
    IF i = 1 THEN dataset
    ELSE fit_transform(transformers[i - 1], Threaded(transformers, i - 1, dataset)).ds

RECURSIVE Concat(_)
Concat(ss) == IF ss = <<>> THEN <<>> ELSE Head(ss) \o Concat(Tail(ss))

Reorderings(transformers) ==
    { [i \in 1..Len(transformers) |-> transformers[p[i]]] :
        p \in { q \in [1..Len(transformers) -> 1..Len(transformers)] : Injective(q) } }

\* C5: a successful run returns one step per transformer, in configuration
\* order, each step being that of the transformer applied to the dataset the
\* previous one returned; added_features is the concatenation of the steps'
\* added columns; the same transformers in another order succeed too, with the
\* same final set of columns and added_features in the new order.
C5_PipelineOrder ==
    (ft_call.op = "run" /\ Returned) =>
        LET ts == ft_call.transformers
            Step(tt, i) == fit_transform(tt[i], Threaded(tt, i, ft_call.ds))
            Added(tt) == Concat([i \in 1..Len(tt) |-> Step(tt, i).report[1].added_features])
        IN  /\ Len(ft_out.report) = Len(ts)
            /\ \A i \in 1..Len(ts) :
                 /\ Step(ts, i).kind = "ok"
                 /\ ft_out.report[i] = Step(ts, i).report[1]
                 /\ ft_out.report[i].transformer = ts[i].type
                 /\ Range(ft_out.report[i].added_features) = IntendedCols(ts[i])
            /\ added_features(ft_out.report) = Added(ts)
            /\ ft_out.ds.df = Threaded(ts, Len(ts) + 1, ft_call.ds).df
            /\ Range(ColNames(ft_out.ds.df)) =
                 Range(ColNames(ft_call.ds.df)) \cup Range(Added(ts))
            /\ \A tt \in Reorderings(ts) :
                 /\ run(tt, ft_call.ds).kind = "ok"
                 /\ Range(ColNames(run(tt, ft_call.ds).ds.df)) = Range(ColNames(ft_out.ds.df))
                 /\ added_features(run(tt, ft_call.ds).report) = Added(tt)

\* a pipeline of two transformers of different classes succeeded, the first
\* one adding two columns
C5_Witness ==
    /\ ft_call.op = "run" /\ Returned
    /\ Len(ft_call.transformers) = 2
    /\ ft_call.transformers[1].type # ft_call.transformers[2].type
    /\ Len(ft_out.report[1].added_features) = 2
    /\ Len(added_features(ft_out.report)) = 3

\* a table breaks a rule of the contract
ViolatesContract(df) ==
    \/ ~\E i \in 1..Len(df.cols) : df.cols[i].name = DATE_COLUMN
    \/ \E i \in 1..Len(df.cols) :
         LET column == df.cols[i]
             IsRole(r) == SubSeq(column.name, 1, Len(r) + 2) = r \o <<"_", "_">>
         IN  IF column.name = DATE_COLUMN
             THEN \/ \E r \in 1..df.n : column.vals[r].fn # "dt"
                  \/ \E r, q \in 1..df.n : r # q /\ column.vals[r] = column.vals[q]
             ELSE \/ ~parse_column_name(column.name).ok
                  \/ column.dtype # "float64"
                  \/ \E r \in 1..df.n :
                       LET v == column.vals[r]
                       IN  \/ IsRole(<<"t","a","r","g","e","t">>) /\ v.fn = "nan"
                           \/ IsRole(<<"m","e","d","i","a">>) /\ v.fn = "num" /\ v.a < 0
                           \/ IsRole(<<"e","v","e","n","t">>) /\ v.fn = "num" /\ (v.a < 0 \/ v.a > v.b)

\* C9: from_dataframe on a table that violates a contract rule fails with
\* ValidationError and produces no dataset.
C9_ViolationRaisesValidationError ==
    (ft_call.op = "from_dataframe" /\ ViolatesContract(ft_call.df)) =>
        /\ ft_out.kind = "error" /\ ft_out.cls = "ValidationError"
        /\ NothingReturned

\* a name of the snake_case token grammar: led by a lowercase letter, made of
\* [a-z0-9_], without a double underscore
SnakeCaseToken(name) ==
    /\ name # <<>> /\ name[1] \in Lower
    /\ \A i \in 1..Len(name) : name[i] \in Lower \cup Digit \cup {"_"}
    /\ \A i \in 1..(Len(name) - 1) : ~(name[i] = "_" /\ name[i + 1] = "_")

\* a malformed transformer configuration
Malformed(t) ==
    IF t.type = "EventTransformer"
    THEN \/ t.has_dates = t.has_events
         \/ ~SnakeCaseToken(t.default_event_name)
         \/ t.has_events /\ \E i \in 1..Len(t.events) : ~SnakeCaseToken(t.events[i][1])
    ELSE IF t.type = "SeasonalityTransformer" THEN t.period <= 1 \/ t.order < 1
    ELSE ~parse_column_name(t.col_name).ok

\* C11: a malformed transformer configuration is rejected with ValueError by
\* the constructor, or else by fit: fit_transform of a constructed malformed
\* transformer fails at fit, before transform runs, and returns nothing.
C11_MalformedRejectedBeforeTransform ==
    /\ (ft_call.op = "construct" /\ Malformed(ft_call.transformers[1])) =>
          \/ ft_out.kind = "error" /\ ft_out.cls = "ValueError"
          \/ /\ ft_call.transformers[1].type = "EventTransformer"
             /\ EventFit(ft_call.transformers[1]).err = "invalid_event_name"
    /\ (ft_call.op = "fit_transform" /\ Malformed(ft_call.transformers[1])) =>
          /\ ft_out.kind = "error" /\ ft_out.cls = "ValueError"
          /\ ft_out.msg = "invalid_event_name"
          /\ NothingReturned

\* the first transformer of a pipeline whose fit_transform fails on the dataset
\* the ones before it hand over; 0 when none fails
FirstFailing(transformers, dataset) ==
    LET Fails(i) == fit_transform(transformers[i], Threaded(transformers, i, dataset)).kind = "error"
    IN  IF \E i \in 1..Len(transformers) : Fails(i)
        THEN CHOOSE i \in 1..Len(transformers) : Fails(i) /\ \A j \in 1..(i - 1) : ~Fails(j)
        ELSE 0

\* C12: when the i-th transformer of a pipeline fails, run returns neither a
\* dataset nor a report and fit_transform was called on the transformers 1..i
\* only; after run and after fit_transform, failed or not, the input dataset's
\* table is what it was before the call.
C12_FailureLeavesInputUnchanged ==
    /\ ft_call.op = "run" =>
          /\ ft_after.df = ft_call.ds.df
          /\ FirstFailing(ft_call.transformers, ft_call.ds) # 0 =>
                /\ ft_out.kind = "error" /\ NothingReturned
                /\ ft_after.calls =
                     [j \in 1..FirstFailing(ft_call.transformers, ft_call.ds) |-> j]
          /\ FirstFailing(ft_call.transformers, ft_call.ds) = 0 =>
                ft_after.calls = [j \in 1..Len(ft_call.transformers) |-> j]
    /\ ft_call.op = "fit_transform" => ft_after.df = ft_call.ds.df

\* the first of two transformers of a pipeline failed at transform, on a
\* dataset of two rows, and the second one was not called
C12_Witness ==
    /\ ft_call.op = "run" /\ Len(ft_call.transformers) = 2
    /\ ft_call.ds.df.n = 2
    /\ ft_out.kind = "error" /\ ft_out.msg = "duplicate_column"
    /\ ft_after.calls = <<1>>
    /\ ft_after.df = ft_call.ds.df

\* the keys of an events mapping in ascending order of name
AscendingKeys(events) ==
    CHOOSE s \in [1..Len(events) -> { events[i][1] : i \in 1..Len(events) }] :
        \A i, j \in 1..Len(events) : i < j => StrLess(s[i], s[j])
\* the dates configured under a key
DatesOf(events, name) == (CHOOSE i \in 1..Len(events) : events[i][1] = name)
\* the calendar day of a datetime cell
Day(v) == v.a \div 2

\* C13: after fit with an events mapping, transform on a dataset that has
\* none of the event columns returns the input's columns and rows followed by
\* one column event__{name} per key, in ascending order of name; the value at
\* a row is 1.0 if the row's calendar day is that of one of the event's dates
\* and 0.0 otherwise; added_features lists the columns in that order.
C13_EventColumns ==
    (/\ TransformCalled
     /\ ft_call.transformers[1].type = "EventTransformer"
     /\ ft_call.transformers[1].has_events
     /\ IntendedCols(ft_call.transformers[1]) \cap InputColNames = {}) =>
        LET events == ft_call.transformers[1].events
            names == AscendingKeys(events)
            in == ft_call.ds.df
            out == ft_out.ds.df
            k == Len(in.cols)
            dates == Col(in, DATE_COLUMN).vals
            EventDays(name) ==
                { Day(events[DatesOf(events, name)][2][d]) :
                    d \in 1..Len(events[DatesOf(events, name)][2]) }
        IN  /\ Returned
            /\ out.n = in.n
            /\ Len(out.cols) = k + Len(events)
            /\ \A i \in 1..k : out.cols[i] = in.cols[i]
            /\ \A j \in 1..Len(events) :
                 /\ out.cols[k + j].name = <<"e","v","e","n","t","_","_">> \o names[j]
                 /\ out.cols[k + j].dtype = "float64"
                 /\ \A r \in 1..in.n :
                      out.cols[k + j].vals[r] =
                          IF Day(dates[r]) \in EventDays(names[j]) THEN Num(1, 1)
                          ELSE Num(0, 1)
            /\ ft_out.report[1].added_features =
                 [j \in 1..Len(events) |-> <<"e","v","e","n","t","_","_">> \o names[j]]

\* two events configured in descending order of name were added in ascending
\* order to a dataset of two rows, the last event matching a row by its
\* calendar day only and the first event leaving a row at 0.0
C13_Witness ==
    /\ TransformCalled /\ Returned
    /\ ft_call.transformers[1].type = "EventTransformer"
    /\ ft_call.transformers[1].has_events
    /\ Len(ft_call.transformers[1].events) = 2
    /\ StrLess(ft_call.transformers[1].events[2][1], ft_call.transformers[1].events[1][1])
    /\ ft_call.ds.df.n = 2
    /\ \E r \in 1..2 :
         /\ Col(ft_call.ds.df, DATE_COLUMN).vals[r] = Dt(2)
         /\ ft_out.ds.df.cols[Len(ft_out.ds.df.cols)].vals[r] = Num(1, 1)
    /\ \E r \in 1..2 : ft_out.ds.df.cols[Len(ft_out.ds.df.cols) - 1].vals[r] = Num(0, 1)

\* row r of a table: its cells in column order
Row(df, r) == [i \in 1..Len(df.cols) |-> df.cols[i].vals[r]]
\* a table of the round trip: a date column of parseable, pairwise distinct
\* dates, every other column named by the naming convention, numeric, and
\* within its role's constraints
RoundTripTable(df) ==
    /\ HasCol(df, DATE_COLUMN)
    /\ \A i \in 1..Len(df.cols) :
         LET column == df.cols[i]
             role == SplitSep(column.name)[1]
         IN  IF column.name = DATE_COLUMN
             THEN /\ \A r \in 1..df.n : column.vals[r].fn = "dt"
                  /\ \A r, q \in 1..df.n : r # q => column.vals[r] # column.vals[q]
             ELSE /\ is_valid_mmm_column_name(column.name)
                  /\ column.dtype = "float64"
                  /\ \A r \in 1..df.n :
                       LET v == column.vals[r]
                       IN  /\ role = <<"t","a","r","g","e","t">> => v.fn = "num"
                           /\ role = <<"m","e","d","i","a">> => v.fn = "num" /\ v.a >= 0
                           /\ role = <<"e","v","e","n","t">> =>
                                v.fn = "num" /\ v.a >= 0 /\ v.a <= v.b

\* C14: from_dataframe on a table whose dates parse and are pairwise distinct,
\* in any row order, and whose other columns are well named and within their
\* role's constraints, succeeds; the dataset's table has the same columns in
\* the same order and the same rows, in ascending order of date; the caller's
\* table is what it was.
C14_RoundTrip ==
    (ft_call.op = "from_dataframe" /\ RoundTripTable(ft_call.df)) =>
        LET in == ft_call.df
            out == ft_out.ds.df
            dates == Col(out, DATE_COLUMN).vals
        IN  /\ Returned
            /\ ColNames(out) = ColNames(in)
            /\ out.n = in.n
            /\ { Row(out, r) : r \in 1..out.n } = { Row(in, r) : r \in 1..in.n }
            /\ \A r \in 1..(out.n - 1) : dates[r].a < dates[r + 1].a
            /\ \A i \in 1..Len(in.cols) :
                 in.cols[i].name # DATE_COLUMN => out.cols[i].dtype = in.cols[i].dtype
            /\ ft_after.df = in

\* a table of two rows given in descending order of date, with a value column
\* that tells the rows apart, was made a dataset
C14_Witness ==
    /\ ft_call.op = "from_dataframe" /\ RoundTripTable(ft_call.df) /\ Returned
    /\ ft_call.df.n = 2 /\ Len(ft_call.df.cols) = 2
    /\ Col(ft_call.df, DATE_COLUMN).vals[1].a > Col(ft_call.df, DATE_COLUMN).vals[2].a
    /\ \E i \in 1..2 : /\ ft_call.df.cols[i].name # DATE_COLUMN
                        /\ ft_call.df.cols[i].vals[1] # ft_call.df.cols[i].vals[2]
                        /\ ft_out.ds.df.cols[i].vals[1] = ft_call.df.cols[i].vals[2]

\* baseline__seasonality__fourier__p{p}__k{k}__{fn}
FourierName(p, k, fn) ==
    <<"b","a","s","e","l","i","n","e","_","_","s","e","a","s","o","n","a","l","i","t","y","_","_","f","o","u","r","i","e","r","_","_","p">>
        \o IntStr(p) \o <<"_","_","k">> \o IntStr(k) \o <<"_","_">> \o fn
\* the 2m names of Seasonality(p, m): increasing k, sin before cos
FourierNames(p, m) ==
    [j \in 1..(2 * m) |->
        FourierName(p, (j + 1) \div 2, IF j % 2 = 1 THEN <<"s","i","n">> ELSE <<"c","o","s">>)]

\* C15: Seasonality(p, m).transform on a dataset holding none of its columns
\* returns the input's columns and rows followed by the 2m Fourier columns,
\* increasing k, sin before cos, whose value at row i (from 0) is the sine or
\* cosine of 2 pi k i / p whatever the dates; added_features lists the 2m names
\* in that order.
C15_SeasonalityColumns ==
    (/\ TransformCalled
     /\ ft_call.transformers[1].type = "SeasonalityTransformer"
     /\ IntendedCols(ft_call.transformers[1]) \cap InputColNames = {}) =>
        LET p == ft_call.transformers[1].period
            m == ft_call.transformers[1].order
            in == ft_call.ds.df
            out == ft_out.ds.df
            k == Len(in.cols)
        IN  /\ Returned
            /\ out.n = in.n
            /\ Len(out.cols) = k + 2 * m
            /\ \A i \in 1..k : out.cols[i] = in.cols[i]
            /\ \A j \in 1..(2 * m) :
                 /\ out.cols[k + j].name = FourierNames(p, m)[j]
                 /\ \A r \in 1..in.n :
                      out.cols[k + j].vals[r] =
                          [fn |-> IF j % 2 = 1 THEN "sin" ELSE "cos",
                           a |-> (j + 1) \div 2, b |-> r - 1, c |-> p]
            /\ ft_out.report[1].added_features = FourierNames(p, m)

\* Seasonality(12, 2) added its four columns to a dataset of two rows whose
\* first date is not the earliest date of the model
C15_Witness ==
    /\ TransformCalled /\ Returned
    /\ ft_call.transformers[1].type = "SeasonalityTransformer"
    /\ ft_call.transformers[1].order = 2
    /\ ft_call.ds.df.n = 2
    /\ Col(ft_call.ds.df, DATE_COLUMN).vals[1] = Dt(1)
    /\ Len(ft_out.ds.df.cols) = Len(ft_call.ds.df.cols) + 4
    /\ ft_out.ds.df.cols[Len(ft_out.ds.df.cols)].vals[2] = Cos(2, 1, 12)

\* C16: Trend.transform on n rows adds one column whose value at row i (from
\* 0) is i when normalize is false or n = 1 and i / (n - 1) when normalize is
\* true and n > 1: then 0 at the first row, 1 at the last, strictly increasing;
\* nothing is divided by zero when n = 1.  The column is added (the call
\* returns) when its name is the default name and the dataset does not hold
\* it; under a name of a role with a range, the contract judges the values.
C16_TrendValues ==
    (TransformCalled /\ ft_call.transformers[1].type = "TrendTransformer") =>
      /\ (/\ ft_call.transformers[1].col_name = <<"b","a","s","e","l","i","n","e","_","_","t","r","e","n","d">>
          /\ ft_call.transformers[1].col_name \notin InputColNames) => Returned
      /\ Returned =>
        LET t == ft_call.transformers[1]
            n == ft_call.ds.df.n
            out == ft_out.ds.df
            trend == out.cols[Len(out.cols)]
            scaled == t.normalize /\ n > 1
        IN  /\ out.n = n
            /\ Len(out.cols) = Len(ft_call.ds.df.cols) + 1
            /\ trend.name = t.col_name
            /\ \A r \in 1..n :
                 /\ trend.vals[r].fn = "num" /\ trend.vals[r].b > 0
                 /\ trend.vals[r].a * (IF scaled THEN n - 1 ELSE 1) = (r - 1) * trend.vals[r].b
            /\ scaled =>
                 /\ trend.vals[1].a = 0
                 /\ trend.vals[n].a = trend.vals[n].b
                 /\ \A r \in 1..(n - 1) :
                      trend.vals[r].a * trend.vals[r + 1].b < trend.vals[r + 1].a * trend.vals[r].b

\* a normalized trend was added to a dataset of four rows: 1/3 at the second
\* row, 1 at the last
C16_Witness ==
    /\ TransformCalled /\ Returned
    /\ ft_call.transformers[1].type = "TrendTransformer"
    /\ ft_call.transformers[1].normalize
    /\ ft_call.ds.df.n = 4
    /\ ft_out.ds.df.cols[Len(ft_out.ds.df.cols)].vals[2] = Num(1, 3)
    /\ ft_out.ds.df.cols[Len(ft_out.ds.df.cols)].vals[4] = Num(3, 3)

\* C17: between(start, end) on a dataset returns a new dataset whose rows are
\* exactly the rows with start <= date <= end, in their order, with the same
\* columns and the same freq; the result satisfies the dataset contract though
\* validation is not run again, also when no row is selected; the original
\* dataset is what it was.
C17_BetweenSelects ==
    (/\ ft_call.op = "between"
     /\ ft_call.args[1].fn = "dt" /\ ft_call.args[2].fn = "dt") =>
        LET in == ft_call.ds.df
            out == ft_out.ds.df
            InRange(df, r) ==
                /\ ft_call.args[1].a <= Col(df, DATE_COLUMN).vals[r].a
                /\ Col(df, DATE_COLUMN).vals[r].a <= ft_call.args[2].a
        IN  /\ Returned
            /\ ft_out.ds.freq = ft_call.ds.freq
            /\ ColNames(out) = ColNames(in)
            /\ \A c \in 1..Len(in.cols) : out.cols[c].dtype = in.cols[c].dtype
            /\ { Row(out, r) : r \in 1..out.n }
                 = { Row(in, r) : r \in { q \in 1..in.n : InRange(in, q) } }
            /\ out.n = Cardinality({ q \in 1..in.n : InRange(in, q) })
            /\ \A r \in 1..(out.n - 1) :
                 Col(out, DATE_COLUMN).vals[r].a < Col(out, DATE_COLUMN).vals[r + 1].a
            /\ Contract(out)
            /\ ft_after.df = in

\* between kept the two middle rows of a dataset of four rows and a freq, both
\* ends of the interval being dates of the dataset
C17_Witness ==
    /\ ft_call.op = "between" /\ Returned
    /\ ft_call.args = <<Dt(2), Dt(4)>>
    /\ ft_call.ds.df.n = 4 /\ ft_call.ds.freq = "W"
    /\ ft_out.ds.df.n = 2 /\ Len(ft_out.ds.df.cols) >= 2
    /\ Col(ft_out.ds.df, DATE_COLUMN).vals = <<Dt(2), Dt(4)>>

\* C18: the dataset returned by a transformer's transform and by
\* FeaturePipeline.run, the empty pipeline included, has the freq of the input
\* dataset.
C18_FreqCarried ==
    (ft_call.op \in {"fit_transform", "run"} /\ Returned) =>
        ft_out.ds.freq = ft_call.ds.freq

\* C19: with normalization enabled, after a successful apply the applied
\* mapping has exactly one entry per configured entry, its key normalized and
\* its target unchanged; two configured keys that normalize to the same string
\* make apply fail.
C19_NoEntryLost ==
    (Applied /\ cm_cfg.normalize) =>
        LET configured == cm_cfg.mapping
            SameKey(i, j) ==
                default_normalizer(configured[i][1]) = default_normalizer(configured[j][1])
        IN  /\ cm_res.kind = "ok" =>
                 /\ Len(cm_res.report.applied_mapping) = Len(configured)
                 /\ \A i \in 1..Len(configured) :
                      \E j \in 1..Len(cm_res.report.applied_mapping) :
                          cm_res.report.applied_mapping[j]
                              = <<default_normalizer(configured[i][1]), configured[i][2]>>
            /\ (\E i, j \in 1..Len(configured) : i # j /\ SameKey(i, j)) =>
                 cm_res.kind = "error"

====
